---- MODULE Spec2Model ----
(***************************************************************************)
(* The access-controlled search core of the Telegram search bot            *)
(* (src/bot.py): per-user quota, cooldown, history and the admin set, and  *)
(* the handle_search coroutine with its await points.                      *)
(*                                                                         *)
(* Time is counted in ticks of 1/TicksPerSec second.  Python dicts are     *)
(* functions whose DOMAIN is the set of keys; lists are sequences.         *)
(***************************************************************************)
EXTENDS Integers, Sequences, FiniteSets, TLC

(* ------------------------------ bounds -------------------------------- *)
\* the wall clock stops advancing at MaxTime ticks
MaxTime == 2
\* no new search is accepted once this many history entries exist in total
MaxHist == 2
\* add_points is exercised only while the balance stays within -MaxDebt..MaxBal
MaxDebt == 1
MaxBal == 2
\* at most this many rows in the small tables where only search_db is studied
MaxRows == 2
\* at most this many log_search calls per identity where only logging is studied
MaxAppends == 22

(* ------------------------- program constants -------------------------- *)
DefaultMaxPoints == 5
DefaultCooldown == 5
\* self.max_points of the TelegramBot of main.py
MainMaxPoints == 5
HistoryCap == 20
ResultLimit == 10
\* sub-second resolution of datetime.now() / total_seconds()
TicksPerSec == 2

(* ------------------------------ inputs -------------------------------- *)
\* chat identities (update.effective_user.id); 3 is the configured owner
UserIds == {1, 3}
\* who searches where one identity's rate stamp is followed
Searchers == {1}
\* who sends commands, and the identities named in /addadmin and /addpoints
Commanders == {1, 3}
AdminTargets == {"1"}
CreditTargets == {"1"}
\* who sends commands, and the identities named, where only commands run
Callers == {1, 2, 3}
GrantTargets == {"1", "3"}
PayTargets == {"1", "2"}
\* which file the disk refuses to write, or none
DiskModes == {"ok", "points", "admins", "history"}
\* values of the environment variable OWNER_ID
Unset == "unset"
OwnerEnvs == {Unset, "3"}
\* spellings of the owner's identity that int() reads as 3
OwnerSpellings == {"3", "03"}
\* int() skips leading zeros
LeadingZeros == {"", "0"}
\* message texts, as sequences of characters
Texts == { <<" ">>, <<"a">>, <<"a", " ">>, <<"z">> }
\* /addpoints amounts, /setcooldown and /setmaxpoints arguments
Amounts == {-1, 0, 1}
CooldownArgs == {-1, 0}
MaxPointsArgs == {0, 1}
\* /setcooldown arguments where the clock runs
ClockCooldownArgs == {-1, 0, 1}

(* ----------------------------- dict helpers --------------------------- *)
Put(d, k, v) == [x \in DOMAIN d \cup {k} |-> IF x = k THEN v ELSE d[x]]
EmptyDict == [x \in {} |-> 0]
Get(d, k, default) == IF k \in DOMAIN d THEN d[k] ELSE default

\* str(user_id)
str(uid) == ToString(uid)
\* int(os.getenv('OWNER_ID', '0'))
owner_int(env) ==
    IF env = Unset THEN 0
    ELSE CHOOSE n \in Callers : \E z \in LeadingZeros : env = z \o str(n)

(* --------------------------- text helpers ----------------------------- *)
IsSpace(c) == c = " "
RECURSIVE lstrip(_)
lstrip(s) == IF s # <<>> /\ IsSpace(Head(s)) THEN lstrip(Tail(s)) ELSE s
RECURSIVE rstrip(_)
rstrip(s) ==
    IF s # <<>> /\ IsSpace(s[Len(s)]) THEN rstrip(SubSeq(s, 1, Len(s) - 1)) ELSE s
\* update.message.text.strip()
strip(s) == rstrip(lstrip(s))

\* code-point order of the characters in use
Alphabet == <<" ", "%", "1", "2", "A", "_", "a", "i", "l", "m", "r", "z">>
Code(c) == CHOOSE k \in 1..Len(Alphabet) : Alphabet[k] = c
Lower(c) == IF c = "A" THEN "a" ELSE c

\* s LIKE p, case-insensitive: % matches any run, _ any one character
RECURSIVE Like(_, _)
Like(s, p) ==
    IF p = <<>> THEN s = <<>>
    ELSE IF Head(p) = "%"
         THEN Like(s, Tail(p)) \/ (s # <<>> /\ Like(Tail(s), p))
         ELSE /\ s # <<>>
              /\ (Head(p) = "_" \/ Lower(Head(s)) = Lower(Head(p)))
              /\ Like(Tail(s), Tail(p))
\* column.ilike(f"%{query}%")
ilike(col, query) == Like(col, <<"%">> \o query \o <<"%">>)

\* s < t in code-point order
RECURSIVE StrLess(_, _)
StrLess(s, t) ==
    IF t = <<>> THEN FALSE
    ELSE IF s = <<>> THEN TRUE
    ELSE IF Head(s) # Head(t) THEN Code(Head(s)) < Code(Head(t))
    ELSE StrLess(Tail(s), Tail(t))

(* ------------------------------ records ------------------------------- *)
\* the rows table, in insertion (id) order
Rows == <<
    [id |-> 1, name |-> <<"A", "m", "i", "r">>, cnic_passport |-> <<"1">>,
     account_number |-> <<"2">>, branch_code |-> <<"1">>,
     instrument_number |-> <<"2">>, amount |-> <<"1", "2">>],
    [id |-> 2, name |-> <<"A", "l", "i">>, cnic_passport |-> <<"2">>,
     account_number |-> <<"1">>, branch_code |-> <<"1">>,
     instrument_number |-> <<"1">>, amount |-> <<"2">>] >>

\* a row with the given id and name, the other columns fixed
MakeRow(id, name) ==
    [id |-> id, name |-> name, cnic_passport |-> <<"1">>,
     account_number |-> <<"2">>, branch_code |-> <<"1">>,
     instrument_number |-> <<"2">>, amount |-> <<"1", "2">>]
\* names given to rows, and the tables built from them: every table of
\* up to MaxRows rows, and one with more rows than a search returns
Names == { <<"A", "l", "i">>, <<"A", "m", "i", "r">>, <<"a", "l", "i">>, <<"m">> }
MakeTable(names) == [k \in 1..Len(names) |-> MakeRow(k, names[k])]
BigTable ==
    [k \in 1..(ResultLimit + 2) |->
        MakeRow(k, IF k % 2 = 1 THEN <<"A", "m", "i", "r">> ELSE <<"A", "l", "i">>)]
Tables ==
    {MakeTable(names) : names \in UNION {[1..n -> Names] : n \in 0..MaxRows}}
        \cup {BigTable}
\* stripped, non-empty queries
Queries == { <<"a">>, <<"A">>, <<"l", "i">>, <<"m">>, <<"1">>, <<"z">>, <<"_">>, <<"%">> }

RowMatches(r, query) ==
    \/ ilike(r.cnic_passport, query)
    \/ ilike(r.account_number, query)
    \/ ilike(r.name, query)
    \/ ilike(r.branch_code, query)
    \/ ilike(r.instrument_number, query)
    \/ ilike(r.amount, query)

\* ORDER BY name: insert r behind every element that is not greater
RECURSIVE InsertByName(_, _)
InsertByName(sorted, r) ==
    IF sorted = <<>> THEN <<r>>
    ELSE IF StrLess(r.name, Head(sorted).name) THEN <<r>> \o sorted
    ELSE <<Head(sorted)>> \o InsertByName(Tail(sorted), r)
RECURSIVE OrderByName(_)
OrderByName(rs) ==
    IF rs = <<>> THEN <<>>
    ELSE InsertByName(OrderByName(SubSeq(rs, 1, Len(rs) - 1)), rs[Len(rs)])

Filter(rs, query) == SelectSeq(rs, LAMBDA r : RowMatches(r, query))
Limit(rs, n) == SubSeq(rs, 1, IF Len(rs) < n THEN Len(rs) ELSE n)

\* search_db: the rows found, or [] when the database raises
search_db(rows, query, db_ok) ==
    IF db_ok THEN Limit(OrderByName(Filter(rows, query)), ResultLimit) ELSE <<>>

(* ------------------------------- time --------------------------------- *)
\* datetime.isoformat(): the fraction is printed only when it is not zero
isoformat(t) ==
    IF t % TicksPerSec = 0 THEN <<t \div TicksPerSec>>
    ELSE <<t \div TicksPerSec, t % TicksPerSec>>
\* datetime.fromisoformat()
fromisoformat(s) == s[1] * TicksPerSec + (IF Len(s) = 2 THEN s[2] ELSE 0)

\* round(num / den) for num >= 0: Python rounds halves to the even integer
round(num, den) ==
    LET q == num \div den
        r == num % den
    IN  IF 2 * r < den THEN q
        ELSE IF 2 * r > den THEN q + 1
        ELSE IF q % 2 = 0 THEN q ELSE q + 1

(* ------------------- ledger, limiter, log, authority ------------------ *)
\* save_data: the three files as written from the in-memory maps
save_data(up, admins, hist) == [points |-> up, admins |-> admins, history |-> hist]

\* is_admin: str(user_id) in self.admin_users
is_admin(admins, uid) == \E k \in 1..Len(admins) : admins[k] = str(uid)

\* get_points: lazy initialisation to max_points, saved when it happens
\* faulty variant of get_points: the record it creates is not saved
get_points_unsaved(up, maxp, uid) ==
    LET k == str(uid) IN
    IF k \notin DOMAIN up
    THEN [user_points |-> Put(up, k, maxp), saved |-> FALSE, ret |-> maxp]
    ELSE [user_points |-> up, saved |-> FALSE, ret |-> up[k]]

get_points(up, maxp, uid) ==
    LET k == str(uid) IN
    IF k \notin DOMAIN up
    THEN [user_points |-> Put(up, k, maxp), saved |-> TRUE, ret |-> maxp]
    ELSE [user_points |-> up, saved |-> FALSE, ret |-> up[k]]

\* faulty variants of use_point, to test that the properties notice:
\* the balance is not looked at before the debit
use_point_blind(up, admins, maxp, uid) ==
    LET k == str(uid)
        up1 == IF k \notin DOMAIN up THEN Put(up, k, maxp) ELSE up
    IN  IF is_admin(admins, uid)
        THEN [user_points |-> up, saved |-> FALSE, ret |-> TRUE]
        ELSE [user_points |-> Put(up1, k, up1[k] - 1), saved |-> TRUE, ret |-> TRUE]
\* the comparison is >= 0 where the code has > 0
use_point_lenient(up, admins, maxp, uid) ==
    LET k == str(uid)
        up1 == IF k \notin DOMAIN up THEN Put(up, k, maxp) ELSE up
    IN  IF is_admin(admins, uid)
        THEN [user_points |-> up, saved |-> FALSE, ret |-> TRUE]
        ELSE IF up1[k] >= 0
             THEN [user_points |-> Put(up1, k, up1[k] - 1), saved |-> TRUE, ret |-> TRUE]
             ELSE [user_points |-> up1, saved |-> FALSE, ret |-> FALSE]

\* use_point: admins pass; others pay one point when they have one
use_point(up, admins, maxp, uid) ==
    LET k == str(uid)
        up1 == IF k \notin DOMAIN up THEN Put(up, k, maxp) ELSE up
    IN  IF is_admin(admins, uid)
        THEN [user_points |-> up, saved |-> FALSE, ret |-> TRUE]
        ELSE IF up1[k] > 0
             THEN [user_points |-> Put(up1, k, up1[k] - 1), saved |-> TRUE, ret |-> TRUE]
             ELSE [user_points |-> up1, saved |-> FALSE, ret |-> FALSE]

\* faulty variants of check_rate_limit:
\* the comparison is <= where the code has <
check_rate_limit_strict(rl, admins, cooldown, uid, current_time) ==
    LET k == str(uid) IN
    IF is_admin(admins, uid)
    THEN [limited |-> FALSE, wait |-> 0, rate_limits |-> rl]
    ELSE IF /\ k \in DOMAIN rl
            /\ current_time - fromisoformat(rl[k]) <= cooldown * TicksPerSec
         THEN [limited |-> TRUE,
               wait |-> round(cooldown * TicksPerSec
                                - (current_time - fromisoformat(rl[k])), TicksPerSec),
               rate_limits |-> rl]
         ELSE [limited |-> FALSE, wait |-> 0,
               rate_limits |-> Put(rl, k, isoformat(current_time))]
\* a rejected attempt restarts the window
check_rate_limit_restamp(rl, admins, cooldown, uid, current_time) ==
    LET k == str(uid) IN
    IF is_admin(admins, uid)
    THEN [limited |-> FALSE, wait |-> 0, rate_limits |-> rl]
    ELSE IF /\ k \in DOMAIN rl
            /\ current_time - fromisoformat(rl[k]) < cooldown * TicksPerSec
         THEN [limited |-> TRUE,
               wait |-> round(cooldown * TicksPerSec
                                - (current_time - fromisoformat(rl[k])), TicksPerSec),
               rate_limits |-> Put(rl, k, isoformat(current_time))]
         ELSE [limited |-> FALSE, wait |-> 0,
               rate_limits |-> Put(rl, k, isoformat(current_time))]
\* admins are stamped like everybody else, though never limited
check_rate_limit_all(rl, admins, cooldown, uid, current_time) ==
    LET k == str(uid) IN
    IF /\ ~is_admin(admins, uid)
       /\ k \in DOMAIN rl
       /\ current_time - fromisoformat(rl[k]) < cooldown * TicksPerSec
    THEN [limited |-> TRUE,
          wait |-> round(cooldown * TicksPerSec
                           - (current_time - fromisoformat(rl[k])), TicksPerSec),
          rate_limits |-> rl]
    ELSE [limited |-> FALSE, wait |-> 0,
          rate_limits |-> Put(rl, k, isoformat(current_time))]

\* check_rate_limit at wall-clock time current_time (ticks)
\* faulty variant of check_rate_limit: only the first attempt is stamped
check_rate_limit_once(rl, admins, cooldown, uid, current_time) ==
    LET k == str(uid) IN
    IF is_admin(admins, uid)
    THEN [limited |-> FALSE, wait |-> 0, rate_limits |-> rl]
    ELSE IF /\ k \in DOMAIN rl
            /\ current_time - fromisoformat(rl[k]) < cooldown * TicksPerSec
         THEN [limited |-> TRUE,
               wait |-> round(cooldown * TicksPerSec
                                - (current_time - fromisoformat(rl[k])), TicksPerSec),
               rate_limits |-> rl]
         ELSE [limited |-> FALSE, wait |-> 0,
               rate_limits |-> IF k \in DOMAIN rl THEN rl
                               ELSE Put(rl, k, isoformat(current_time))]

check_rate_limit(rl, admins, cooldown, uid, current_time) ==
    LET k == str(uid) IN
    IF is_admin(admins, uid)
    THEN [limited |-> FALSE, wait |-> 0, rate_limits |-> rl]
    ELSE IF /\ k \in DOMAIN rl
            /\ current_time - fromisoformat(rl[k]) < cooldown * TicksPerSec
         THEN [limited |-> TRUE,
               wait |-> round(cooldown * TicksPerSec
                                - (current_time - fromisoformat(rl[k])), TicksPerSec),
               rate_limits |-> rl]
         ELSE [limited |-> FALSE, wait |-> 0,
               rate_limits |-> Put(rl, k, isoformat(current_time))]

\* lst[-n:]
\* faulty variant of the slice: the oldest n entries are kept
FirstN(lst, n) == IF Len(lst) <= n THEN lst ELSE SubSeq(lst, 1, n)

LastN(lst, n) == IF Len(lst) <= n THEN lst ELSE SubSeq(lst, Len(lst) - n + 1, Len(lst))

\* faulty variant of log_search: a search that found nothing is not logged
log_search_hits_only(hist, uid, query, num_results, current_time) ==
    LET k == str(uid)
        entry == [query |-> query, results |-> num_results,
                  timestamp |-> isoformat(current_time)]
    IN  IF num_results = 0 THEN hist
        ELSE Put(hist, k, LastN(Append(Get(hist, k, <<>>), entry), HistoryCap))

\* log_search: append, keep the last HistoryCap entries
log_search(hist, uid, query, num_results, current_time) ==
    LET k == str(uid)
        entry == [query |-> query, results |-> num_results,
                  timestamp |-> isoformat(current_time)]
    IN  Put(hist, k, LastN(Append(Get(hist, k, <<>>), entry), HistoryCap))

(* ------------------------------- state -------------------------------- *)
VARIABLES
    user_points,       \* self.user_points: str(id) -> balance
    admin_users,       \* self.admin_users: list of str(id)
    max_points,        \* self.max_points
    rate_limits,       \* self.rate_limits: str(id) -> isoformat stamp
    cooldown_seconds,  \* self.cooldown_seconds
    search_history,    \* self.search_history: str(id) -> list of entries
    files,             \* user_points.json, admin_users.json, search_history.json
    owner_id,          \* the environment variable OWNER_ID
    peer,              \* the cache of the main.py process: its user_points and admin_users
    disk,              \* which of the three files cannot be written at present, if any
    found,             \* the last call of search_db where it is studied alone: table, query, return
    now,               \* the wall clock, in ticks
    task,              \* the handle_search coroutines in flight, by slot
    fresh,             \* identities created by lazy initialisation and never
                       \* credited: the default they got, the successes since
    allowed_at,        \* when each non-admin identity last passed the rate check
    refused,           \* each identity's last request turned away: how, and when
    logged,            \* how many times log_search was called for each identity
    reply              \* the last message sent by reply_text, where it is recorded

vars == <<user_points, admin_users, max_points, rate_limits, cooldown_seconds,
          search_history, files, owner_id, peer, disk, found, now, task, fresh, allowed_at, refused,
          logged, reply>>

\* slots for concurrently running handle_search coroutines
Slots == {1, 2}
IdleTask == [pc |-> "idle", user |-> 0, query |-> <<>>, is_admin |-> FALSE,
             results |-> <<>>, bal0 |-> 0]
\* context.args: a missing argument, text that int() rejects, or an integer
NoArg == "noarg"
Missing == [kind |-> "missing", v |-> 0]
NotANumber == [kind |-> "text", v |-> 0]
IntArg(n) == [kind |-> "int", v |-> n]
IntArgs(S) == {IntArg(n) : n \in S} \cup {Missing, NotANumber}
\* search_db was not called yet
NoSearch == [rows |-> <<>>, query |-> <<>>, results |-> <<>>]
\* the files before anything was saved
NoFiles == [points |-> EmptyDict, admins |-> <<>>, history |-> EmptyDict]

RECURSIVE SumLen(_, _)
SumLen(d, keys) ==
    IF keys = {} THEN 0
    ELSE LET k == CHOOSE x \in keys : TRUE IN Len(d[k]) + SumLen(d, keys \ {k})
\* history entries written or about to be written
HistLoad == SumLen(search_history, DOMAIN search_history)
              + Cardinality({i \in Slots : task[i].pc = "searching"})
AllIdle == \A i \in Slots : task[i].pc = "idle"
\* a new coroutine takes the first free slot
FirstFree(i) == task[i].pc = "idle" /\ \A j \in Slots : j < i => task[j].pc # "idle"

\* the identity was just created by lazy initialisation with default d
Created(f, up, uid, d) ==
    IF str(uid) \in DOMAIN up THEN f ELSE Put(f, str(uid), [d |-> d, n |-> 0])
\* a success outcome was delivered to uid
Succeeded(f, uid) ==
    IF str(uid) \in DOMAIN f
    THEN Put(f, str(uid), [d |-> f[str(uid)].d, n |-> f[str(uid)].n + 1]) ELSE f
\* key received a credit
Credited(f, key) == [k \in DOMAIN f \ {key} |-> f[k]]

\* a message sent to a chat: whom, which of the handler's texts, and the
\* number it carries, if any
Msg(uid, kind, n) == [to |-> uid, kind |-> kind, n |-> n]
\* the messages sent are not recorded
Off == Msg(0, "off", 0)
\* the messages sent are recorded, none was sent yet
Silent == Msg(0, "none", 0)
\* reply_text(m)
reply_text(m) == IF reply = Off THEN Off ELSE m

\* __init__ and load_data with no files present, then main(): the owner is
\* appended to the admin list and saved when OWNER_ID is set
Start(envs) ==
    /\ owner_id \in envs
    /\ peer = [user_points |-> EmptyDict, admin_users |-> IF owner_id # Unset THEN <<owner_id>> ELSE <<>>]
    /\ disk = "ok"
    /\ found = NoSearch
    /\ user_points = EmptyDict
    /\ admin_users = IF owner_id # Unset THEN <<owner_id>> ELSE <<>>
    /\ max_points = DefaultMaxPoints
    /\ rate_limits = EmptyDict
    /\ cooldown_seconds = DefaultCooldown
    /\ search_history = EmptyDict
    /\ files = IF owner_id # Unset
               THEN save_data(EmptyDict, <<owner_id>>, EmptyDict)
               ELSE NoFiles
    /\ now = 0
    /\ task = [i \in Slots |-> IdleTask]
    /\ fresh = EmptyDict
    /\ allowed_at = EmptyDict
    /\ refused = EmptyDict
    /\ logged = EmptyDict

Boot == Start(OwnerEnvs)
Init == Boot /\ reply = Off
\* the same start, with the messages sent recorded
InitReplies == Boot /\ reply = Silent
\* the start with OWNER_ID set, in either spelling, the messages recorded
InitOwner == Start(OwnerSpellings) /\ reply = Silent

\* what is on disk after save_data ran: the files are written in the
\* order points, admins, history; when one cannot be written the
\* exception ends the writing, the files before it are new, it and the
\* files after it are as they were
store(new) ==
    IF disk = "ok" THEN new
    ELSE IF disk = "points" THEN files
    ELSE IF disk = "admins" THEN [files EXCEPT !.points = new.points]
    ELSE [files EXCEPT !.points = new.points, !.admins = new.admins]

\* faulty variant of save_data's except clause: the exception of a failed
\* write reaches the caller
save_raises_through(mode) == mode # "ok"

\* save_data catches every exception and prints it: none reaches the caller
save_raises(mode) == FALSE

\* the wall clock advances
Tick ==
    /\ now < MaxTime
    /\ now' = now + 1
    /\ UNCHANGED <<user_points, admin_users, max_points, rate_limits,
                   cooldown_seconds, search_history, files, owner_id, peer, disk, found, task, fresh,
                   allowed_at, refused, logged, reply>>

(* --------------------------- handle_search ---------------------------- *)
\* faulty variant of the first block of handle_search: the quota test is
\* < 0 where the code has <= 0
handle_search_begin_lenient(up, admins, maxp, rl, cooldown, uid, text, current_time) ==
    LET query == strip(text)
        r == check_rate_limit(rl, admins, cooldown, uid, current_time)
        adm == is_admin(admins, uid)
        gp == get_points(up, maxp, uid)
    IN  IF query = <<>>
        THEN [outcome |-> "invalid", wait |-> 0, query |-> query, is_admin |-> FALSE,
              bal0 |-> 0, user_points |-> up, rate_limits |-> rl, saved |-> FALSE]
        ELSE IF r.limited
        THEN [outcome |-> "rate_limited", wait |-> r.wait, query |-> query,
              is_admin |-> FALSE, bal0 |-> 0, user_points |-> up,
              rate_limits |-> r.rate_limits, saved |-> FALSE]
        ELSE IF adm
        THEN [outcome |-> "searching", wait |-> 0, query |-> query, is_admin |-> TRUE,
              bal0 |-> 0, user_points |-> up, rate_limits |-> r.rate_limits,
              saved |-> FALSE]
        ELSE [outcome |-> IF gp.ret < 0 THEN "exhausted" ELSE "searching",
              wait |-> 0, query |-> query, is_admin |-> FALSE, bal0 |-> gp.ret,
              user_points |-> gp.user_points, rate_limits |-> r.rate_limits,
              saved |-> gp.saved]

\* faulty variant: the rate check runs before the text is looked at
handle_search_begin_stamping(up, admins, maxp, rl, cooldown, uid, text, current_time) ==
    LET query == strip(text)
        r == check_rate_limit(rl, admins, cooldown, uid, current_time)
        adm == is_admin(admins, uid)
        gp == get_points(up, maxp, uid)
    IN  IF r.limited
        THEN [outcome |-> "rate_limited", wait |-> r.wait, query |-> query,
              is_admin |-> FALSE, bal0 |-> 0, user_points |-> up,
              rate_limits |-> r.rate_limits, saved |-> FALSE]
        ELSE IF query = <<>>
        THEN [outcome |-> "invalid", wait |-> 0, query |-> query, is_admin |-> FALSE,
              bal0 |-> 0, user_points |-> up, rate_limits |-> r.rate_limits,
              saved |-> FALSE]
        ELSE IF adm
        THEN [outcome |-> "searching", wait |-> 0, query |-> query, is_admin |-> TRUE,
              bal0 |-> 0, user_points |-> up, rate_limits |-> r.rate_limits,
              saved |-> FALSE]
        ELSE [outcome |-> IF gp.ret <= 0 THEN "exhausted" ELSE "searching",
              wait |-> 0, query |-> query, is_admin |-> FALSE, bal0 |-> gp.ret,
              user_points |-> gp.user_points, rate_limits |-> r.rate_limits,
              saved |-> gp.saved]

\* lines 369-397, from the update to the first await: the outcome reached
\* there (invalid, rate_limited, exhausted, or searching when the coroutine
\* goes on to the record match), the wait reported, and the maps as left
\* faulty variant of the first block: the balance is tested before the
\* rate check, so an exhausted caller is not stamped
handle_search_begin_quota_first(up, admins, maxp, rl, cooldown, uid, text, current_time) ==
    LET query == strip(text)
        r == check_rate_limit(rl, admins, cooldown, uid, current_time)
        adm == is_admin(admins, uid)
        gp == get_points(up, maxp, uid)
    IN  IF query = <<>>
        THEN [outcome |-> "invalid", wait |-> 0, query |-> query, is_admin |-> FALSE,
              bal0 |-> 0, user_points |-> up, rate_limits |-> rl, saved |-> FALSE]
        ELSE IF ~adm /\ gp.ret <= 0
        THEN [outcome |-> "exhausted", wait |-> 0, query |-> query, is_admin |-> FALSE,
              bal0 |-> gp.ret, user_points |-> gp.user_points, rate_limits |-> rl,
              saved |-> gp.saved]
        ELSE IF r.limited
        THEN [outcome |-> "rate_limited", wait |-> r.wait, query |-> query,
              is_admin |-> FALSE, bal0 |-> 0, user_points |-> up,
              rate_limits |-> r.rate_limits, saved |-> FALSE]
        ELSE [outcome |-> "searching", wait |-> 0, query |-> query, is_admin |-> adm,
              bal0 |-> IF adm THEN 0 ELSE gp.ret,
              user_points |-> IF adm THEN up ELSE gp.user_points,
              rate_limits |-> r.rate_limits,
              saved |-> IF adm THEN FALSE ELSE gp.saved]

handle_search_begin(up, admins, maxp, rl, cooldown, uid, text, current_time) ==
    LET query == strip(text)
        r == check_rate_limit(rl, admins, cooldown, uid, current_time)
        adm == is_admin(admins, uid)
        gp == get_points(up, maxp, uid)
    IN  IF query = <<>>
        THEN [outcome |-> "invalid", wait |-> 0, query |-> query, is_admin |-> FALSE,
              bal0 |-> 0, user_points |-> up, rate_limits |-> rl, saved |-> FALSE]
        ELSE IF r.limited
        THEN [outcome |-> "rate_limited", wait |-> r.wait, query |-> query,
              is_admin |-> FALSE, bal0 |-> 0, user_points |-> up,
              rate_limits |-> r.rate_limits, saved |-> FALSE]
        ELSE IF adm
        THEN [outcome |-> "searching", wait |-> 0, query |-> query, is_admin |-> TRUE,
              bal0 |-> 0, user_points |-> up, rate_limits |-> r.rate_limits,
              saved |-> FALSE]
        ELSE [outcome |-> IF gp.ret <= 0 THEN "exhausted" ELSE "searching",
              wait |-> 0, query |-> query, is_admin |-> FALSE, bal0 |-> gp.ret,
              user_points |-> gp.user_points, rate_limits |-> r.rate_limits,
              saved |-> gp.saved]

\* faulty variant of the charge: use_point is called twice
handle_search_charge_twice(up, admins, maxp, uid) ==
    LET u1 == use_point(up, admins, maxp, uid)
        u == use_point(u1.user_points, admins, maxp, uid)
        gp == get_points(u.user_points, maxp, uid)
    IN  [user_points |-> gp.user_points, saved |-> u1.saved \/ u.saved \/ gp.saved,
         debited |-> u1.ret, points_left |-> gp.ret]

\* lines 414-421: use_point, its result dropped, then get_points for the
\* balance shown
handle_search_charge(up, admins, maxp, uid) ==
    LET u == use_point(up, admins, maxp, uid)
        gp == get_points(u.user_points, maxp, uid)
    IN  [user_points |-> gp.user_points, saved |-> u.saved \/ gp.saved,
         debited |-> u.ret, points_left |-> gp.ret]

\* the update arrives: handle_search runs to its first await
Receive(i, uid, text) ==
    LET b == handle_search_begin(user_points, admin_users, max_points, rate_limits,
                                 cooldown_seconds, uid, text, now)
    IN
    /\ FirstFree(i)
    /\ HistLoad < MaxHist
    /\ user_points' = b.user_points
    /\ rate_limits' = b.rate_limits
    /\ files' = IF b.saved THEN store(save_data(b.user_points, admin_users, search_history))
                ELSE files
    /\ fresh' = IF b.outcome \in {"exhausted", "searching"} /\ ~b.is_admin
                THEN Created(fresh, user_points, uid, max_points) ELSE fresh
    /\ task' = IF b.outcome = "searching"
               THEN [task EXCEPT ![i] =
                        [pc |-> "searching", user |-> uid, query |-> b.query,
                         is_admin |-> b.is_admin, results |-> <<>>, bal0 |-> b.bal0]]
               ELSE task
    /\ allowed_at' = IF b.outcome \in {"exhausted", "searching"} /\ ~b.is_admin
                     THEN Put(allowed_at, str(uid), now) ELSE allowed_at
    /\ refused' = IF b.outcome \in {"invalid", "searching"} THEN refused
                  ELSE Put(refused, str(uid), [kind |-> b.outcome, at |-> now])
    /\ reply' = reply_text(Msg(uid, b.outcome, b.wait))
    /\ UNCHANGED <<admin_users, max_points, cooldown_seconds, search_history,
                   owner_id, peer, disk, found, now, logged>>

\* faulty variant of the match block: the caller is charged before the
\* result is looked at
Match_charging(i, db_ok) ==
    LET t == task[i]
        results == search_db(Rows, t.query, db_ok)
        hist == log_search(search_history, t.user, t.query, Len(results), now)
        u == use_point(user_points, admin_users, max_points, t.user)
    IN
    /\ t.pc = "searching"
    /\ search_history' = hist
    /\ logged' = Put(logged, str(t.user), Get(logged, str(t.user), 0) + 1)
    /\ user_points' = u.user_points
    /\ files' = store(save_data(u.user_points, admin_users, hist))
    /\ task' = IF results = <<>>
               THEN [task EXCEPT ![i] = IdleTask]
               ELSE [task EXCEPT ![i].pc = "found",
                                 ![i].results = [k \in 1..Len(results) |-> results[k].id]]
    /\ UNCHANGED <<admin_users, max_points, rate_limits, cooldown_seconds,
                   owner_id, peer, disk, found, now, fresh, allowed_at, refused, reply>>

\* lines 401-412: the match returns, the attempt is logged; an empty result
\* ends the coroutine with the no-match outcome; an exception out of
\* log_search would end it in the except clause of 437-440
Match(i, db_ok) ==
    LET t == task[i]
        results == search_db(Rows, t.query, db_ok)
        hist == log_search(search_history, t.user, t.query, Len(results), now)
    IN
    /\ t.pc = "searching"
    /\ search_history' = hist
    /\ logged' = Put(logged, str(t.user), Get(logged, str(t.user), 0) + 1)
    /\ files' = store(save_data(user_points, admin_users, hist))
    /\ task' = IF results = <<>> \/ save_raises(disk)
               THEN [task EXCEPT ![i] = IdleTask]
               ELSE [task EXCEPT ![i].pc = "found",
                                 ![i].results = [k \in 1..Len(results) |-> results[k].id]]
    /\ reply' = reply_text(IF save_raises(disk) THEN Msg(t.user, "error", 0)
                           ELSE Msg(t.user, IF results = <<>> THEN "no_match" ELSE "found",
                                    Len(results)))
    /\ UNCHANGED <<user_points, admin_users, max_points, rate_limits,
                   cooldown_seconds, owner_id, peer, disk, found, now, fresh, allowed_at, refused>>

\* faulty variant of the last block: the coroutine does not end
Charge_unfinished(i) ==
    LET t == task[i]
        c == handle_search_charge(user_points, admin_users, max_points, t.user)
    IN
    /\ t.pc = "found"
    /\ IF t.is_admin
       THEN UNCHANGED <<user_points, files, fresh>>
       ELSE /\ user_points' = c.user_points
            /\ files' = IF c.saved
                        THEN store(save_data(c.user_points, admin_users, search_history))
                        ELSE files
            /\ fresh' = Succeeded(fresh, t.user)
    /\ reply' = reply_text(IF t.is_admin THEN Msg(t.user, "results", Len(t.results))
                           ELSE Msg(t.user, "charged", c.points_left))
    /\ UNCHANGED <<admin_users, max_points, rate_limits, cooldown_seconds, task,
                   search_history, owner_id, peer, disk, found, now, allowed_at, refused, logged>>

\* lines 414-435: a non-admin caller is charged, then the results are sent
\* and the coroutine ends with the success outcome
Charge(i) ==
    LET t == task[i]
        c == handle_search_charge(user_points, admin_users, max_points, t.user)
    IN
    /\ t.pc = "found"
    /\ task' = [task EXCEPT ![i] = IdleTask]
    /\ IF t.is_admin
       THEN UNCHANGED <<user_points, files, fresh>>
       ELSE /\ user_points' = c.user_points
            /\ files' = IF c.saved
                        THEN store(save_data(c.user_points, admin_users, search_history))
                        ELSE files
            /\ fresh' = IF c.saved /\ save_raises(disk) THEN fresh
                        ELSE Succeeded(fresh, t.user)
    /\ reply' = reply_text(IF t.is_admin THEN Msg(t.user, "results", Len(t.results))
                           ELSE IF c.saved /\ save_raises(disk) THEN Msg(t.user, "error", 0)
                           ELSE Msg(t.user, "charged", c.points_left))
    /\ UNCHANGED <<admin_users, max_points, rate_limits, cooldown_seconds,
                   search_history, owner_id, peer, disk, found, now, allowed_at, refused, logged>>

(* ------------------------------ commands ------------------------------ *)
\* /start and /points: an admin is shown the unbounded sentinel, anybody
\* else the balance, initialised on first sight
ShowPoints(uid) ==
    LET gp == get_points(user_points, max_points, uid) IN
    /\ IF is_admin(admin_users, uid)
       THEN UNCHANGED <<user_points, files, fresh>>
       ELSE /\ user_points' = gp.user_points
            /\ files' = IF gp.saved
                        THEN store(save_data(gp.user_points, admin_users, search_history))
                        ELSE files
            /\ fresh' = Created(fresh, user_points, uid, max_points)
    /\ reply' = reply_text(IF is_admin(admin_users, uid) THEN Msg(uid, "unlimited", 0)
                           ELSE Msg(uid, "points", gp.ret))
    /\ UNCHANGED <<admin_users, max_points, rate_limits, cooldown_seconds,
                   search_history, owner_id, peer, disk, found, now, task, allowed_at, refused, logged>>

start(uid) == ShowPoints(uid)
check_points(uid) == ShowPoints(uid)

\* faulty variant of /addadmin: the target is appended without looking
\* whether it is in the list
add_admin_again(uid, arg) ==
    /\ IF \/ ~is_admin(admin_users, uid) /\ uid # owner_int(owner_id)
          \/ arg = NoArg
       THEN UNCHANGED <<admin_users, files>>
       ELSE /\ admin_users' = Append(admin_users, arg)
            /\ files' = store(save_data(user_points, Append(admin_users, arg), search_history))
    /\ reply' = reply_text(Msg(uid,
                    IF ~is_admin(admin_users, uid) /\ uid # owner_int(owner_id)
                    THEN "denied"
                    ELSE IF arg = NoArg THEN "usage"
                    ELSE "admin_added", 0))
    /\ UNCHANGED <<user_points, max_points, rate_limits, cooldown_seconds,
                   search_history, owner_id, peer, disk, found, now, task, fresh, allowed_at, refused, logged>>

\* /addadmin [user_id]
add_admin(uid, arg) ==
    /\ IF \/ ~is_admin(admin_users, uid) /\ uid # owner_int(owner_id)
          \/ arg = NoArg
          \/ \E k \in 1..Len(admin_users) : admin_users[k] = arg
       THEN UNCHANGED <<admin_users, files>>
       ELSE /\ admin_users' = Append(admin_users, arg)
            /\ files' = store(save_data(user_points, Append(admin_users, arg), search_history))
    /\ reply' = reply_text(Msg(uid,
                    IF ~is_admin(admin_users, uid) /\ uid # owner_int(owner_id)
                    THEN "denied"
                    ELSE IF arg = NoArg THEN "usage"
                    ELSE IF \E k \in 1..Len(admin_users) : admin_users[k] = arg
                    THEN "already_admin"
                    ELSE "admin_added", 0))
    /\ UNCHANGED <<user_points, max_points, rate_limits, cooldown_seconds,
                   search_history, owner_id, peer, disk, found, now, task, fresh, allowed_at, refused, logged>>

\* faulty variant of /addpoints: a balance is never taken below zero
add_points_clamped(uid, target, amount) ==
    LET up0 == IF target \notin DOMAIN user_points
               THEN Put(user_points, target, 0) ELSE user_points
        up1 == Put(up0, target, IF up0[target] + amount.v < 0 THEN 0
                                ELSE up0[target] + amount.v)
    IN
    /\ IF \/ ~is_admin(admin_users, uid)
          \/ target = NoArg \/ amount = Missing
          \/ amount = NotANumber
       THEN UNCHANGED <<user_points, files, fresh>>
       ELSE /\ up1[target] \in -MaxDebt..MaxBal
            /\ user_points' = up1
            /\ files' = store(save_data(up1, admin_users, search_history))
            /\ fresh' = Credited(fresh, target)
    /\ reply' = reply_text(
                    IF ~is_admin(admin_users, uid) THEN Msg(uid, "denied", 0)
                    ELSE IF target = NoArg \/ amount = Missing THEN Msg(uid, "usage", 0)
                    ELSE IF amount = NotANumber THEN Msg(uid, "not_a_number", 0)
                    ELSE Msg(uid, "points_added", up1[target]))
    /\ UNCHANGED <<admin_users, max_points, rate_limits, cooldown_seconds,
                   search_history, owner_id, peer, disk, found, now, task, allowed_at, refused, logged>>

\* /addpoints [user_id] [points]
add_points(uid, target, amount) ==
    LET up0 == IF target \notin DOMAIN user_points
               THEN Put(user_points, target, 0) ELSE user_points
        up1 == Put(up0, target, up0[target] + amount.v)
    IN
    /\ IF \/ ~is_admin(admin_users, uid)
          \/ target = NoArg \/ amount = Missing
          \/ amount = NotANumber
       THEN UNCHANGED <<user_points, files, fresh>>
       ELSE /\ up1[target] \in -MaxDebt..MaxBal
            /\ user_points' = up1
            /\ files' = store(save_data(up1, admin_users, search_history))
            /\ fresh' = Credited(fresh, target)
    /\ reply' = reply_text(
                    IF ~is_admin(admin_users, uid) THEN Msg(uid, "denied", 0)
                    ELSE IF target = NoArg \/ amount = Missing THEN Msg(uid, "usage", 0)
                    ELSE IF amount = NotANumber THEN Msg(uid, "not_a_number", 0)
                    ELSE Msg(uid, "points_added", up1[target]))
    /\ UNCHANGED <<admin_users, max_points, rate_limits, cooldown_seconds,
                   search_history, owner_id, peer, disk, found, now, task, allowed_at, refused, logged>>

\* faulty variant of /setcooldown: anybody may set the cooldown
set_cooldown_open(uid, arg) ==
    /\ IF \/ arg = Missing
          \/ arg = NotANumber
          \/ arg.v < 0
       THEN UNCHANGED cooldown_seconds
       ELSE cooldown_seconds' = arg.v
    /\ reply' = reply_text(
                    IF arg = Missing THEN Msg(uid, "current", cooldown_seconds)
                    ELSE IF arg = NotANumber THEN Msg(uid, "not_a_number", 0)
                    ELSE IF arg.v < 0 THEN Msg(uid, "too_small", 0)
                    ELSE Msg(uid, "cooldown_set", arg.v))
    /\ UNCHANGED <<user_points, admin_users, max_points, rate_limits,
                   search_history, files, owner_id, peer, disk, found, now, task, fresh, allowed_at, refused, logged>>

\* /setcooldown [seconds]
set_cooldown(uid, arg) ==
    /\ IF \/ ~is_admin(admin_users, uid)
          \/ arg = Missing
          \/ arg = NotANumber
          \/ arg.v < 0
       THEN UNCHANGED cooldown_seconds
       ELSE cooldown_seconds' = arg.v
    /\ reply' = reply_text(
                    IF ~is_admin(admin_users, uid) THEN Msg(uid, "denied", 0)
                    ELSE IF arg = Missing THEN Msg(uid, "current", cooldown_seconds)
                    ELSE IF arg = NotANumber THEN Msg(uid, "not_a_number", 0)
                    ELSE IF arg.v < 0 THEN Msg(uid, "too_small", 0)
                    ELSE Msg(uid, "cooldown_set", arg.v))
    /\ UNCHANGED <<user_points, admin_users, max_points, rate_limits,
                   search_history, files, owner_id, peer, disk, found, now, task, fresh, allowed_at, refused, logged>>

\* faulty variant of /setmaxpoints: zero is accepted
set_max_points_zero(uid, arg) ==
    /\ IF \/ ~is_admin(admin_users, uid)
          \/ arg = Missing
          \/ arg = NotANumber
          \/ arg.v < 0
       THEN UNCHANGED max_points
       ELSE max_points' = arg.v
    /\ reply' = reply_text(
                    IF ~is_admin(admin_users, uid) THEN Msg(uid, "denied", 0)
                    ELSE IF arg = Missing THEN Msg(uid, "current", max_points)
                    ELSE IF arg = NotANumber THEN Msg(uid, "not_a_number", 0)
                    ELSE IF arg.v < 0 THEN Msg(uid, "too_small", 0)
                    ELSE Msg(uid, "max_points_set", arg.v))
    /\ UNCHANGED <<user_points, admin_users, rate_limits, cooldown_seconds,
                   search_history, files, owner_id, peer, disk, found, now, task, fresh, allowed_at, refused, logged>>

\* /setmaxpoints [points]
set_max_points(uid, arg) ==
    /\ IF \/ ~is_admin(admin_users, uid)
          \/ arg = Missing
          \/ arg = NotANumber
          \/ arg.v < 1
       THEN UNCHANGED max_points
       ELSE max_points' = arg.v
    /\ reply' = reply_text(
                    IF ~is_admin(admin_users, uid) THEN Msg(uid, "denied", 0)
                    ELSE IF arg = Missing THEN Msg(uid, "current", max_points)
                    ELSE IF arg = NotANumber THEN Msg(uid, "not_a_number", 0)
                    ELSE IF arg.v < 1 THEN Msg(uid, "too_small", 0)
                    ELSE Msg(uid, "max_points_set", arg.v))
    /\ UNCHANGED <<user_points, admin_users, rate_limits, cooldown_seconds,
                   search_history, files, owner_id, peer, disk, found, now, task, fresh, allowed_at, refused, logged>>

\* /stats: admins only, nothing is written
show_stats(uid) ==
    /\ reply' = reply_text(
                    IF ~is_admin(admin_users, uid) THEN Msg(uid, "denied", 0)
                    ELSE Msg(uid, "stats", Cardinality(DOMAIN user_points)))
    /\ UNCHANGED <<user_points, admin_users, max_points, rate_limits, cooldown_seconds,
                   search_history, files, owner_id, peer, disk, found, now, task, fresh, allowed_at,
                   refused, logged>>

\* the process is stopped between two updates and started again:
\* __init__ sets the defaults, load_data reads the three files, main adds
\* the owner to the admins when OWNER_ID is set and not yet among them
restart ==
    LET admins == IF owner_id # Unset
                     /\ ~\E k \in 1..Len(files.admins) : files.admins[k] = owner_id
                  THEN Append(files.admins, owner_id) ELSE files.admins
    IN
    /\ AllIdle
    /\ user_points' = files.points
    /\ admin_users' = admins
    /\ search_history' = files.history
    /\ max_points' = DefaultMaxPoints
    /\ cooldown_seconds' = DefaultCooldown
    /\ rate_limits' = EmptyDict
    /\ files' = IF admins # files.admins
                THEN store(save_data(files.points, admins, files.history)) ELSE files
    /\ reply' = reply_text(Silent)
    /\ UNCHANGED <<owner_id, peer, disk, found, now, task, fresh, allowed_at, refused, logged>>

(* --------------------------- specifications --------------------------- *)
\* a command handler runs from the update to its reply without an await
\* between its reads and its writes
Command ==
    \E uid \in Commanders :
        \/ start(uid)
        \/ check_points(uid)
        \/ \E arg \in AdminTargets \cup {NoArg} : add_admin(uid, arg)
        \/ \E target \in CreditTargets \cup {NoArg}, amount \in IntArgs(Amounts) :
               add_points(uid, target, amount)
        \/ \E arg \in IntArgs(CooldownArgs) : set_cooldown(uid, arg)
        \/ \E arg \in IntArgs(MaxPointsArgs) : set_max_points(uid, arg)

Search ==
    \E i \in Slots :
        \/ \E uid \in UserIds, text \in Texts : Receive(i, uid, text)
        \/ \E db_ok \in BOOLEAN : Match(i, db_ok)
        \/ Charge(i)

\* the whole program: coroutines interleave at their await points while
\* the clock runs
Next == Tick \/ Command \/ Search
Spec == Init /\ [][Next]_vars

\* interleaved coroutines and commands within one reading of the clock
NextRace == Command \/ Search
SpecRace == Init /\ [][NextRace]_vars

\* interleaved coroutines under a running clock, the cooldown being the
\* only setting changed
NextClock ==
    \/ Tick
    \/ Search
    \/ \E uid \in Commanders, arg \in IntArgs(ClockCooldownArgs) :
           set_cooldown(uid, arg)
SpecClock == Init /\ [][NextClock]_vars

\* interleaved coroutines while admin rights are granted, within one
\* reading of the clock
NextGrant ==
    \/ Search
    \/ \E uid \in Commanders, arg \in AdminTargets \cup {NoArg} : add_admin(uid, arg)
    \/ \E uid \in Commanders : check_points(uid)
SpecGrant == Init /\ [][NextGrant]_vars

\* interleaved coroutines alone, the messages sent recorded
NextAsk == Search
SpecAsk == InitReplies /\ [][NextAsk]_vars

\* log_search alone, called over and over: the n-th call for an identity
\* passes n as its result count, which tells the entries apart
log_search_call(uid) ==
    LET k == str(uid)
        n == Get(logged, k, 0) + 1
        hist == log_search(search_history, uid, <<"a">>, n, now)
    IN
    /\ n <= MaxAppends
    /\ search_history' = hist
    /\ logged' = Put(logged, k, n)
    /\ files' = store(save_data(user_points, admin_users, hist))
    /\ UNCHANGED <<user_points, admin_users, max_points, rate_limits,
                   cooldown_seconds, owner_id, peer, disk, found, now, task, fresh, allowed_at,
                   refused, reply>>

\* one update at a time under a running clock, while balances are
\* credited and the cooldown is changed; the searches are one identity's
NextStamp ==
    \/ Tick
    \/ \E i \in Slots :
        \/ AllIdle /\ \E uid \in Searchers, text \in Texts : Receive(i, uid, text)
        \/ \E db_ok \in BOOLEAN : Match(i, db_ok)
        \/ Charge(i)
    \/ /\ AllIdle
       /\ \E uid \in Commanders :
              \/ \E target \in CreditTargets, amount \in IntArgs(Amounts) :
                     add_points(uid, target, amount)
              \/ \E arg \in IntArgs(CooldownArgs) : set_cooldown(uid, arg)
SpecStamp == Init /\ [][NextStamp]_vars

\* one update at a time within one reading of the clock; the process may
\* be stopped and started again between two updates
NextReboot ==
    \/ \E i \in Slots :
        \/ AllIdle /\ \E uid \in UserIds, text \in Texts : Receive(i, uid, text)
        \/ \E db_ok \in BOOLEAN : Match(i, db_ok)
        \/ Charge(i)
    \/ restart
SpecReboot == InitReplies /\ [][NextReboot]_vars

\* the disk starts refusing one of the files, for good
disk_fault(mode) ==
    /\ disk = "ok" /\ mode # "ok"
    /\ disk' = mode
    /\ UNCHANGED <<user_points, admin_users, max_points, rate_limits, cooldown_seconds,
                   search_history, files, owner_id, peer, found, now, task, fresh,
                   allowed_at, refused, logged, reply>>

\* one update at a time within one reading of the clock, on a disk that
\* may refuse writes, the messages sent recorded
NextDisk ==
    \/ \E mode \in DiskModes : disk_fault(mode)
    \/ \E i \in Slots :
        \/ AllIdle /\ \E uid \in Searchers, text \in Texts : Receive(i, uid, text)
        \/ \E db_ok \in BOOLEAN : Match(i, db_ok)
        \/ Charge(i)
    \/ /\ AllIdle
       /\ \E uid \in Commanders :
              \/ \E arg \in AdminTargets : add_admin(uid, arg)
              \/ \E target \in CreditTargets, amount \in Amounts :
                     add_points(uid, target, IntArg(amount))
SpecDisk == InitReplies /\ [][NextDisk]_vars

\* interleaved coroutines and credits, the messages sent recorded; the
\* event loop resumes every coroutine whose awaited call has returned,
\* and the match always returns
NextFair ==
    \/ Search
    \/ \E uid \in Commanders, target \in CreditTargets, n \in Amounts :
           add_points(uid, target, IntArg(n))
SpecFair ==
    /\ InitReplies
    /\ [][NextFair]_vars
    /\ \A i \in Slots : /\ WF_vars(\E db_ok \in BOOLEAN : Match(i, db_ok))
                         /\ WF_vars(Charge(i))

(* ---------------- the second bot process, main.py ---------------------- *)
\* app.py starts main.py and, three seconds later, bot.py: two processes
\* polling with the same token, each update handled by one of them, each
\* with its own cache loaded once from the same files. The messages the
\* main.py process sends are not recorded.
\* save_data of main.py: the points file and the admins file are
\* rewritten from its cache; it knows no history file
main_save_data(p) ==
    [files EXCEPT !.points = p.user_points, !.admins = p.admin_users]

\* the code shared by the handlers below: the cache becomes p and is
\* written out when the handler called save_data
main_ends(p, saved) ==
    /\ peer' = p
    /\ files' = IF saved THEN main_save_data(p) ELSE files
    /\ UNCHANGED <<user_points, admin_users, max_points, rate_limits, cooldown_seconds,
                   search_history, owner_id, disk, found, now, task, fresh, allowed_at,
                   refused, logged, reply>>

\* /start and /points of main.py
main_check_points(uid) ==
    LET gp == get_points(peer.user_points, MainMaxPoints, uid) IN
    IF is_admin(peer.admin_users, uid)
    THEN main_ends(peer, FALSE)
    ELSE main_ends([peer EXCEPT !.user_points = gp.user_points], gp.saved)

\* /addadmin [user_id] of main.py
main_add_admin(uid, arg) ==
    IF \/ ~is_admin(peer.admin_users, uid) /\ uid # owner_int(owner_id)
       \/ arg = NoArg
       \/ \E k \in 1..Len(peer.admin_users) : peer.admin_users[k] = arg
    THEN main_ends(peer, FALSE)
    ELSE main_ends([peer EXCEPT !.admin_users = Append(peer.admin_users, arg)], TRUE)

\* /addpoints [user_id] [points] of main.py
main_add_points(uid, target, amount) ==
    LET up0 == IF target \notin DOMAIN peer.user_points
               THEN Put(peer.user_points, target, 0) ELSE peer.user_points
        up1 == Put(up0, target, up0[target] + amount.v)
    IN
    IF \/ ~is_admin(peer.admin_users, uid)
       \/ target = NoArg \/ amount = Missing
       \/ amount = NotANumber
    THEN main_ends(peer, FALSE)
    ELSE /\ up1[target] \in -MaxDebt..MaxBal
         /\ main_ends([peer EXCEPT !.user_points = up1], TRUE)

\* handle_search of main.py, from the update to its last message: no
\* rate limit and no history; the quota test, the match, and for a
\* non-admin with results use_point and get_points
main_handle_search(uid, text, db_ok) ==
    LET query == strip(text)
        adm == is_admin(peer.admin_users, uid)
        gp == get_points(peer.user_points, MainMaxPoints, uid)
        results == search_db(Rows, query, db_ok)
        u == use_point(gp.user_points, peer.admin_users, MainMaxPoints, uid)
    IN
    IF query = <<>> \/ adm
    THEN main_ends(peer, FALSE)
    ELSE IF gp.ret <= 0 \/ results = <<>>
    THEN main_ends([peer EXCEPT !.user_points = gp.user_points], gp.saved)
    ELSE main_ends([peer EXCEPT !.user_points = u.user_points], gp.saved \/ u.saved)

\* one update at a time, handled by either process
NextTwo ==
    \/ \E i \in Slots :
        \/ AllIdle /\ \E uid \in Searchers, text \in Texts : Receive(i, uid, text)
        \/ \E db_ok \in BOOLEAN : Match(i, db_ok)
        \/ Charge(i)
    \/ /\ AllIdle
       /\ \E uid \in Commanders :
              \/ \E arg \in AdminTargets : add_admin(uid, arg)
              \/ \E target \in CreditTargets, amount \in Amounts :
                    add_points(uid, target, IntArg(amount))
              \/ main_check_points(uid)
              \/ \E arg \in AdminTargets : main_add_admin(uid, arg)
              \/ \E target \in CreditTargets, amount \in Amounts :
                    main_add_points(uid, target, IntArg(amount))
              \/ \E text \in Texts, db_ok \in BOOLEAN : main_handle_search(uid, text, db_ok)
SpecTwo == Init /\ [][NextTwo]_vars

\* search_db alone, called on a table with a query
search_db_call(rows, query) ==
    /\ found' = [rows |-> rows, query |-> query, results |-> search_db(rows, query, TRUE)]
    /\ UNCHANGED <<user_points, admin_users, max_points, rate_limits, cooldown_seconds,
                   search_history, files, owner_id, peer, disk, now, task, fresh, allowed_at,
                   refused, logged, reply>>

NextFind == \E rows \in Tables, query \in Queries : search_db_call(rows, query)
SpecFind == Init /\ [][NextFind]_vars

NextLog == \E uid \in UserIds : log_search_call(uid)
SpecLog == Init /\ [][NextLog]_vars

\* the commands alone, one after the other, the messages sent recorded;
\* the process may be stopped and started again between two commands
Orders ==
    \E uid \in Callers :
        \/ check_points(uid)
        \/ \E arg \in GrantTargets \cup {NoArg} : add_admin(uid, arg)
        \/ \E target \in PayTargets \cup {NoArg}, amount \in IntArgs(Amounts) :
               add_points(uid, target, amount)
        \/ \E arg \in IntArgs(CooldownArgs) : set_cooldown(uid, arg)
        \/ \E arg \in IntArgs(MaxPointsArgs) : set_max_points(uid, arg)
        \/ show_stats(uid)

NextOrders == Orders \/ restart
SpecOrders == InitReplies /\ [][NextOrders]_vars
\* one update at a time: searches while the settings are changed and
\* balances looked up, within one reading of the clock, the messages
\* recorded
NextTune ==
    \/ \E i \in Slots :
        \/ AllIdle /\ \E uid \in UserIds, text \in Texts : Receive(i, uid, text)
        \/ \E db_ok \in BOOLEAN : Match(i, db_ok)
        \/ Charge(i)
    \/ /\ AllIdle
       /\ \E uid \in Callers :
              \/ check_points(uid)
              \/ \E arg \in IntArgs(CooldownArgs) : set_cooldown(uid, arg)
              \/ \E arg \in IntArgs(MaxPointsArgs) : set_max_points(uid, arg)
SpecTune == InitReplies /\ [][NextTune]_vars

\* the same, OWNER_ID being set in one spelling or another
SpecOwner == InitOwner /\ [][NextOrders]_vars

\* one update is handled to completion before the next is taken, within
\* one reading of the clock
NextSeq ==
    \/ AllIdle /\ Command
    \/ \E i \in Slots :
        \/ AllIdle /\ \E uid \in UserIds, text \in Texts : Receive(i, uid, text)
        \/ \E db_ok \in BOOLEAN : Match(i, db_ok)
        \/ Charge(i)
SpecSeq == Init /\ [][NextSeq]_vars

(* ------------------------------ properties ---------------------------- *)
\* the identity is in the admin list
Admin(k) == \E j \in 1..Len(admin_users) : admin_users[j] = k
\* the balance the ledger holds or would create for uid
BalanceAtEntry(uid) == Get(user_points, str(uid), max_points)

\* C1: every use_point call made for a non-admin identity whose balance is
\* >= 0, in whatever order the coroutines interleave, returns True and
\* takes exactly one point iff the balance was > 0, returns False and
\* leaves the ledger as it was otherwise, and never leaves the balance
\* below 0.
C1_UsePointContract ==
    [][\A i \in Slots :
         LET t == task[i]
             k == str(t.user)
             u == use_point(user_points, admin_users, max_points, t.user)
         IN  (Charge(i) /\ ~t.is_admin /\ ~Admin(k) /\ user_points[k] >= 0)
             => /\ u.ret = (user_points[k] > 0)
                /\ user_points' = IF user_points[k] > 0
                                  THEN Put(user_points, k, user_points[k] - 1)
                                  ELSE user_points
                /\ user_points'[k] >= 0]_vars

\* use_point has both debited an identity down to 0 and refused it there
C1_DebitedThenRefused ==
    \E k \in DOMAIN fresh :
        /\ ~Admin(k)
        /\ user_points[k] = 0
        /\ fresh[k].n = fresh[k].d + 1

C3_ChargedOnce ==
    [][\A i \in Slots :
         /\ \A uid \in UserIds, text \in Texts :
              (Receive(i, uid, text) /\ task'[i].pc = "searching" /\ ~task'[i].is_admin)
              => /\ task'[i].bal0 = BalanceAtEntry(uid)
                 /\ task'[i].bal0 > 0
         /\ \A db_ok \in BOOLEAN :
              (Match(i, db_ok) /\ ~task[i].is_admin)
              => user_points'[str(task[i].user)] = task[i].bal0
         /\ (Charge(i) /\ ~task[i].is_admin)
            => user_points' = Put(user_points, str(task[i].user), task[i].bal0 - 1)]_vars

\* a never-credited identity has had one success and holds its default less 1
C3_OneSuccessOnePoint ==
    \E k \in DOMAIN fresh :
        /\ AllIdle
        /\ fresh[k].n = 1
        /\ user_points[k] = fresh[k].d - 1
        /\ \E e \in 1..Len(search_history[k]) : search_history[k][e].results > 0

\* C4: when updates are handled one at a time, a search whose match comes
\* back empty ends there, and the ledger is as it was when the search
\* entered, but for the caller's balance having been created with the
\* default if the caller was not seen before.
C4_NoChargeOnEmpty ==
    [][\A i \in Slots :
         /\ \A uid \in UserIds, text \in Texts :
              (Receive(i, uid, text) /\ task'[i].pc = "searching" /\ ~task'[i].is_admin)
              => user_points' = Put(user_points, str(uid), BalanceAtEntry(uid))
         /\ \A db_ok \in BOOLEAN :
              (Match(i, db_ok) /\ search_db(Rows, task[i].query, db_ok) = <<>>)
              => /\ task'[i] = IdleTask
                 /\ user_points' = user_points
                 /\ ~task[i].is_admin =>
                        user_points'[str(task[i].user)] = task[i].bal0]_vars

\* an identity created by its first search found nothing and still holds
\* the default
C4_EmptyResultKeptDefault ==
    \E k \in DOMAIN fresh :
        /\ AllIdle
        /\ fresh[k].n = 0
        /\ user_points[k] = fresh[k].d
        /\ k \in DOMAIN search_history
        /\ \A e \in 1..Len(search_history[k]) : search_history[k][e].results = 0

\* C5 as stated: every stored balance is >= 0 in every reachable state.
C5_AllBalancesNonNegative ==
    \A k \in DOMAIN user_points : user_points[k] >= 0

\* C5, amended: a step that creates a balance below 0, or lowers a balance
\* to a value below 0, is an /addpoints with a negative amount; searches,
\* balance queries, other credits and configuration changes never do it.
C5_OnlyNegativeCreditGoesBelowZero ==
    [][\A k \in DOMAIN user_points' :
         (/\ user_points'[k] < 0
          /\ k \in DOMAIN user_points => user_points'[k] < user_points[k])
         => \E uid \in Commanders, n \in Amounts :
                n < 0 /\ add_points(uid, k, IntArg(n))]_vars

\* an identity that has searched was pushed below 0 by a credit and then
\* turned away as exhausted
C5_ZeroByDebitNegativeByCredit ==
    \E k \in DOMAIN user_points :
        /\ user_points[k] < 0
        /\ k \in DOMAIN refused
        /\ refused[k].kind = "exhausted"
        /\ k \in DOMAIN search_history

\* the rate check as the program would run it for uid in this state
RateCheck(uid) ==
    check_rate_limit(rate_limits, admin_users, cooldown_seconds, uid, now)
\* the first block of handle_search as the program would run it
Begin(uid, text) ==
    handle_search_begin(user_points, admin_users, max_points, rate_limits,
                        cooldown_seconds, uid, text, now)
\* the smallest integer >= num / den, for num >= 0
ceil(num, den) == (num + den - 1) \div den

\* C6: in every reachable state the rate check lets a non-admin identity
\* through iff no attempt of it was let through before or at least
\* cooldown_seconds have passed since the last one that was; the stamp
\* kept is the time of that attempt, whatever was rejected since.
C6_AllowedIffCooledDown ==
    \A uid \in UserIds :
        LET k == str(uid) IN
        ~Admin(k) =>
            /\ (k \in DOMAIN rate_limits) = (k \in DOMAIN allowed_at)
            /\ k \in DOMAIN rate_limits => fromisoformat(rate_limits[k]) = allowed_at[k]
            /\ (~RateCheck(uid).limited)
                 = (\/ k \notin DOMAIN allowed_at
                    \/ now - allowed_at[k] >= cooldown_seconds * TicksPerSec)

\* an identity was let through, rejected inside the window, and let
\* through again once the window had passed
C6_AllowedRejectedAllowed ==
    \E k \in DOMAIN allowed_at :
        /\ cooldown_seconds > 0
        /\ k \in DOMAIN refused
        /\ refused[k].kind = "rate_limited"
        /\ refused[k].at < allowed_at[k]
        /\ k \in DOMAIN search_history
        /\ Len(search_history[k]) = 2
        /\ fromisoformat(search_history[k][1].timestamp) < refused[k].at

\* C7: a handle_search call that ends rate-limited leaves the stamps, the
\* balances, the history, the files, the settings and the coroutines in
\* flight exactly as they were: a step that changes any of them is no such
\* call.
C7_RateLimitedChangesNothing ==
    [][\/ UNCHANGED <<user_points, rate_limits, search_history, files, task,
                      admin_users, max_points, cooldown_seconds>>
       \/ \A i \in Slots, uid \in UserIds, text \in Texts :
            ~(Begin(uid, text).outcome = "rate_limited" /\ Receive(i, uid, text))]_vars

\* an identity has just been rejected by the rate check and its stamp is
\* still the earlier one
C7_RejectedStampKept ==
    \E k \in DOMAIN refused :
        /\ refused[k].kind = "rate_limited"
        /\ refused[k].at = now
        /\ fromisoformat(rate_limits[k]) < now
        /\ k \notin DOMAIN search_history

\* C8: whenever the rate check rejects, the wait it reports is the
\* remaining time rounded up to whole seconds, and so at least 1.
C8_WaitIsCeiling ==
    \A uid \in UserIds :
        LET k == str(uid)
            r == RateCheck(uid)
        IN  r.limited =>
              /\ r.wait = ceil(cooldown_seconds * TicksPerSec
                                 - (now - fromisoformat(rate_limits[k])), TicksPerSec)
              /\ r.wait >= 1

\* C9: for an identity in the admin list, use_point returns True and
\* check_rate_limit returns (False, 0), both leaving the maps as they
\* were, and a step that creates or changes a balance or a stamp is no
\* step of a handle_search running for that identity.
C9_AdminBypass ==
    [][/\ \A uid \in UserIds :
            Admin(str(uid)) =>
              LET u == use_point(user_points, admin_users, max_points, uid)
                  r == RateCheck(uid)
              IN  /\ u.ret
                  /\ u.user_points = user_points
                  /\ r = [limited |-> FALSE, wait |-> 0, rate_limits |-> rate_limits]
       /\ \/ UNCHANGED <<user_points, rate_limits>>
          \/ \A i \in Slots :
               /\ \A uid \in UserIds, text \in Texts :
                    ~(Admin(str(uid)) /\ Receive(i, uid, text))
               /\ \A db_ok \in BOOLEAN :
                    ~(Admin(str(task[i].user)) /\ Match(i, db_ok))
               /\ ~(Admin(str(task[i].user)) /\ Charge(i))]_vars

\* an admin has been through a whole search with results and has neither a
\* balance nor a stamp, and an identity made admin while its search was
\* in flight was sent its results with its balance still the default
C9_AdminSearchedUntouched ==
    /\ AllIdle
    /\ \E k \in DOMAIN search_history :
         /\ Admin(k)
         /\ \E e \in 1..Len(search_history[k]) : search_history[k][e].results > 0
         /\ k \notin DOMAIN user_points
         /\ k \notin DOMAIN rate_limits
    /\ \E k \in DOMAIN fresh :
         /\ Admin(k)
         /\ fresh[k].n = 1
         /\ user_points[k] = fresh[k].d

\* C10: when updates are handled one at a time, an identity created with
\* default d and never credited holds d minus its successes, never below
\* 0, so it has had exactly d successes when it reaches 0; a non-admin
\* search that passes the rate check goes on to the match iff the balance
\* is > 0 and ends exhausted otherwise, whatever the query, so the match
\* only ever runs for a caller that entered with a balance > 0.
C10_QuotaRunsOut ==
    /\ \A k \in DOMAIN fresh :
         user_points[k] = fresh[k].d - fresh[k].n /\ user_points[k] >= 0
    /\ \A uid \in UserIds, text \in Texts :
         (/\ ~Admin(str(uid))
          /\ str(uid) \in DOMAIN user_points
          /\ Begin(uid, text).outcome \notin {"invalid", "rate_limited"})
         => Begin(uid, text).outcome
              = IF user_points[str(uid)] > 0 THEN "searching" ELSE "exhausted"
    /\ \A i \in Slots :
         (task[i].pc # "idle" /\ ~task[i].is_admin) => task[i].bal0 > 0

\* a never-credited identity has had as many successes as its default,
\* holds 0, and its next search was turned away as exhausted
C10_SpentThenExhausted ==
    \E k \in DOMAIN fresh :
        /\ ~Admin(k)
        /\ fresh[k].n = fresh[k].d
        /\ user_points[k] = 0
        /\ k \in DOMAIN refused
        /\ refused[k].kind = "exhausted"

\* what the program holds, apart from the clock and the bookkeeping
state == <<user_points, admin_users, max_points, rate_limits, cooldown_seconds,
           search_history, files, task>>

\* C11: a handle_search call whose text strips to nothing answers with the
\* request for a query and leaves every map, file, setting and coroutine
\* as it was: no stamp, no balance (not even the default) and no history
\* entry is created or changed.
C11_BlankTextChangesNothing ==
    [][\A i \in Slots, uid \in UserIds, text \in Texts :
         (strip(text) = <<>> /\ Receive(i, uid, text))
         => /\ reply' = Msg(uid, "invalid", 0)
            /\ UNCHANGED state]_vars

\* an identity never seen was answered that its text is no query, and is
\* still unseen, while another identity has a balance, a stamp and history
C11_BlankFromUnseen ==
    \E uid \in UserIds :
        /\ reply = Msg(uid, "invalid", 0)
        /\ ~Admin(str(uid))
        /\ str(uid) \notin DOMAIN user_points
        /\ str(uid) \notin DOMAIN rate_limits
        /\ str(uid) \notin DOMAIN search_history
        /\ DOMAIN search_history # {}
        /\ DOMAIN rate_limits # {}

\* C12: the history changes only in the step in which a handle_search
\* gets its match result, and that step appends exactly one entry to the
\* caller's history, carrying the query and the number of rows found,
\* empty result or not, admin or not, and touches no balance; when the
\* caller is charged the entry is already there.
C12_EveryResultLogged ==
    [][/\ \/ UNCHANGED search_history
          \/ \E i \in Slots, db_ok \in BOOLEAN : Match(i, db_ok)
       /\ \A i \in Slots, db_ok \in BOOLEAN :
            Match(i, db_ok) =>
              LET k == str(task[i].user)
                  old == Get(search_history, k, <<>>)
                  r == search_db(Rows, task[i].query, db_ok)
              IN  /\ DOMAIN search_history' = DOMAIN search_history \cup {k}
                  /\ Len(search_history'[k]) = Len(old) + 1
                  /\ SubSeq(search_history'[k], 1, Len(old)) = old
                  /\ search_history'[k][Len(old) + 1].query = task[i].query
                  /\ search_history'[k][Len(old) + 1].results = Len(r)
                  /\ \A k2 \in DOMAIN search_history \ {k} :
                       search_history'[k2] = search_history[k2]
                  /\ UNCHANGED user_points
       /\ \A i \in Slots :
            Charge(i) =>
              LET h == search_history[str(task[i].user)] IN
              \E e \in 1..Len(h) :
                  h[e].query = task[i].query /\ h[e].results = Len(task[i].results)]_vars

\* an admin's search with rows found and a non-admin's search with none
\* are both in the history
C12_HitAndMissLogged ==
    /\ AllIdle
    /\ \E k \in DOMAIN search_history :
         Admin(k) /\ \E e \in 1..Len(search_history[k]) : search_history[k][e].results > 0
    /\ \E k \in DOMAIN search_history :
         /\ ~Admin(k)
         /\ \E e \in 1..Len(search_history[k]) :
              search_history[k][e].results = 0 /\ search_history[k][e].query = <<"z">>

\* C13: after n log_search calls for an identity, starting from no
\* history, the identity's history holds min(n, 20) entries, and they are
\* the calls n - min(n, 20) + 1 .. n in the order they were made; no
\* history is ever longer than 20.
C13_HistoryKeepsLast20 ==
    /\ DOMAIN search_history = DOMAIN logged
    /\ \A k \in DOMAIN logged :
         LET n == logged[k]
             h == search_history[k]
             m == IF n < 20 THEN n ELSE 20
         IN  /\ Len(h) = m
             /\ \A e \in 1..m : h[e].results = n - m + e
    /\ \A k \in DOMAIN search_history : Len(search_history[k]) <= 20

\* an identity logged more than 20 times: the oldest entries are gone
C13_OldestDropped ==
    \E k \in DOMAIN logged :
        /\ logged[k] = 22
        /\ Len(search_history[k]) = 20
        /\ search_history[k][1].results = 3
        /\ search_history[k][20].results = 22

\* C14: the owner passes every admin-gated check: whenever the identity
\* that OWNER_ID names sends /addadmin, /addpoints, /setcooldown,
\* /setmaxpoints or /stats, is_admin is true of it and the answer is not
\* the permission error.
C14_OwnerPassesEveryGate ==
    [][\A uid \in Callers :
         (/\ uid = owner_int(owner_id)
          /\ \/ \E arg \in GrantTargets \cup {NoArg} : add_admin(uid, arg)
             \/ \E target \in PayTargets \cup {NoArg}, amount \in IntArgs(Amounts) :
                    add_points(uid, target, amount)
             \/ \E arg \in IntArgs(CooldownArgs) : set_cooldown(uid, arg)
             \/ \E arg \in IntArgs(MaxPointsArgs) : set_max_points(uid, arg)
             \/ show_stats(uid))
         => /\ is_admin(admin_users, uid)
            /\ reply'.kind # "denied"]_vars

\* an admin, or the owner by number
MayGrant(uid) == is_admin(admin_users, uid) \/ uid = owner_int(owner_id)
NoDuplicates(lst) == \A a, b \in 1..Len(lst) : lst[a] = lst[b] => a = b

\* C15: when a caller allowed to grant names an identity that is in the
\* admin list, the answer is "already an admin" and the list and the
\* files stay as they are; the list never holds an identity twice,
\* whatever grants and restarts (with their owner insertion) happened.
C15_GrantIdempotent ==
    [][/\ NoDuplicates(admin_users) /\ NoDuplicates(admin_users')
       /\ NoDuplicates(files.admins')
       /\ \A uid \in Callers, arg \in GrantTargets :
            (/\ MayGrant(uid)
             /\ \E k \in 1..Len(admin_users) : admin_users[k] = arg
             /\ add_admin(uid, arg))
            => /\ reply' = Msg(uid, "already_admin", 0)
               /\ UNCHANGED state]_vars

\* an identity that was granted admin rights grants them again and is
\* told the target is one already
C15_GrantedTwice ==
    /\ admin_users = <<"3", "1">>
    /\ reply = Msg(1, "already_admin", 0)

\* C16: a caller that is neither an admin nor the owner gets the
\* permission error from /addadmin, /addpoints, /setcooldown,
\* /setmaxpoints and /stats, whatever the arguments, and the admin list,
\* the balances, the cooldown, the default and the files stay as they are.
C16_OutsidersDenied ==
    [][\A uid \in Callers :
         (/\ ~MayGrant(uid)
          /\ \/ \E arg \in GrantTargets \cup {NoArg} : add_admin(uid, arg)
             \/ \E target \in PayTargets \cup {NoArg}, amount \in IntArgs(Amounts) :
                    add_points(uid, target, amount)
             \/ \E arg \in IntArgs(CooldownArgs) : set_cooldown(uid, arg)
             \/ \E arg \in IntArgs(MaxPointsArgs) : set_max_points(uid, arg)
             \/ show_stats(uid))
         => /\ reply' = Msg(uid, "denied", 0)
            /\ UNCHANGED state]_vars

\* somebody without rights was turned away while there were admins,
\* balances and changed settings to protect
C16_DeniedWithStateToProtect ==
    /\ reply = Msg(2, "denied", 0)
    /\ ~MayGrant(2)
    /\ Len(admin_users) = 2
    /\ "2" \in DOMAIN user_points
    /\ cooldown_seconds = 0
    /\ max_points = 1

\* C17: /addpoints from an admin for an identity that has a balance b,
\* with any integer n, leaves that balance at exactly b + n, below zero
\* if it comes to that, reports b + n, and changes no other balance.
C17_CreditIsExact ==
    [][\A uid \in Callers, target \in PayTargets, n \in Amounts :
         (/\ is_admin(admin_users, uid)
          /\ target \in DOMAIN user_points
          /\ add_points(uid, target, IntArg(n)))
         => /\ user_points' = [user_points EXCEPT ![target] = @ + n]
            /\ reply' = Msg(uid, "points_added", user_points[target] + n)
            /\ files'.points = user_points']_vars

\* one balance was credited up to 2, which takes a credit on an existing
\* balance, another stands below zero
C17_CreditedUpAndDown ==
    /\ reply.kind = "points_added" /\ reply.n = 2
    /\ "1" \in DOMAIN user_points /\ user_points["1"] = 2
    /\ "2" \in DOMAIN user_points /\ user_points["2"] = -1

\* C18: a balance record that comes into existence starts from the
\* default max_points of that moment: created by /points or /start it
\* holds the default, created by /addpoints with amount n it holds the
\* default plus n; no record is ever deleted.
C18_RecordsStartAtDefault ==
    [][/\ DOMAIN user_points \subseteq DOMAIN user_points'
       /\ \A k \in DOMAIN user_points' \ DOMAIN user_points :
            \/ user_points'[k] = max_points
            \/ \E uid \in Callers, n \in Amounts :
                   /\ add_points(uid, k, IntArg(n))
                   /\ user_points'[k] = max_points + n]_vars

\* C19: /setmaxpoints sets max_points to its argument when an admin
\* gives an integer >= 1 and leaves it alone otherwise; /setcooldown does
\* the same to cooldown_seconds with integers >= 0; either touches
\* nothing else, no balance, no rate stamp, no file. A record created
\* afterwards holds the max_points of its moment, and a search by a
\* stamped non-admin is turned away for rate exactly when the time since
\* the stamp is below the cooldown of that moment.
C19_SettingsOnlyChangeSettings ==
    [][/\ \A uid \in Callers, arg \in IntArgs(MaxPointsArgs) :
            set_max_points(uid, arg) =>
              /\ max_points' = IF is_admin(admin_users, uid) /\ arg.kind = "int"
                                  /\ arg.v >= 1
                               THEN arg.v ELSE max_points
              /\ UNCHANGED <<user_points, admin_users, rate_limits, cooldown_seconds,
                             search_history, files, task>>
       /\ \A uid \in Callers, arg \in IntArgs(CooldownArgs) :
            set_cooldown(uid, arg) =>
              /\ cooldown_seconds' = IF is_admin(admin_users, uid) /\ arg.kind = "int"
                                        /\ arg.v >= 0
                                     THEN arg.v ELSE cooldown_seconds
              /\ UNCHANGED <<user_points, admin_users, rate_limits, max_points,
                             search_history, files, task>>
       /\ \A k \in DOMAIN user_points' \ DOMAIN user_points :
            user_points'[k] = max_points
       /\ \A i \in Slots, uid \in UserIds, text \in Texts :
            (/\ strip(text) # <<>>
             /\ ~Admin(str(uid))
             /\ str(uid) \in DOMAIN rate_limits
             /\ Receive(i, uid, text))
            => (reply'.kind = "rate_limited"
                <=> now - fromisoformat(rate_limits[str(uid)])
                      < cooldown_seconds * TicksPerSec)]_vars

\* the default was lowered to 1 and the cooldown to 0: a balance from
\* before still holds 5 and its rate stamp stands, a balance created
\* after holds 1, and the stamped identity's next search was let through
C19_OldBalanceKeptNewOneLower ==
    /\ max_points = 1 /\ cooldown_seconds = 0
    /\ "1" \in DOMAIN user_points /\ user_points["1"] = 5
    /\ "1" \in DOMAIN rate_limits
    /\ "2" \in DOMAIN user_points /\ user_points["2"] = 1
    /\ "1" \in DOMAIN search_history
    /\ \E i \in Slots : task[i].pc = "searching" /\ task[i].user = 1
    /\ reply = Msg(1, "searching", 0)

\* C20: when the record store fails during a search for a query that
\* has matching rows, the caller is not told that nothing matched (the
\* failure is reported as such), and no balance is charged.
C20_StoreFailureNotReportedAsNoMatch ==
    [][\A i \in Slots :
         (/\ task[i].pc = "searching"
          /\ search_db(Rows, task[i].query, TRUE) # <<>>
          /\ Match(i, FALSE))
         => /\ reply'.kind # "no_match"
            /\ UNCHANGED user_points]_vars

\* q occurs in s, letter case ignored
Contains(s, q) ==
    \E i \in 0..(Len(s) - Len(q)) : \A j \in 1..Len(q) : Lower(s[i + j]) = Lower(q[j])
\* the query occurs in one of the six searchable columns of the row
HasSubstring(r, q) ==
    \/ Contains(r.cnic_passport, q) \/ Contains(r.account_number, q)
    \/ Contains(r.name, q) \/ Contains(r.branch_code, q)
    \/ Contains(r.instrument_number, q) \/ Contains(r.amount, q)
\* a comes before b: by name, rows of one name by insertion
Before(a, b) == StrLess(a.name, b.name) \/ (a.name = b.name /\ a.id < b.id)

\* C21: what search_db returns for a table and a query is exactly the
\* rows in which the query occurs, letter case ignored, in one of the six
\* columns: each once, by name ascending and by insertion within a name,
\* the first 10 of them.
C21_ExactlyTheSubstringMatches ==
    LET t == found.rows
        q == found.query
        res == found.results
        M == {k \in 1..Len(t) : HasSubstring(t[k], q)}
    IN  found # NoSearch =>
          /\ \A a \in 1..Len(res) : \E k \in M : t[k] = res[a]
          /\ \A a, b \in 1..Len(res) : a < b => Before(res[a], res[b])
          /\ Len(res) = IF Cardinality(M) < 10 THEN Cardinality(M) ELSE 10
          /\ \A k \in M :
               (\A a \in 1..Len(res) : res[a] # t[k])
               => \A a \in 1..Len(res) : Before(res[a], t[k])

\* C22 as claimed: a handle_search that ends exhausted changes nothing
\* but the lazily created balance: no rate stamp, no history, no other
\* balance.
C22_ExhaustedChangesNoStamp ==
    [][\A i \in Slots, uid \in UserIds, text \in Texts :
         (Begin(uid, text).outcome = "exhausted" /\ Receive(i, uid, text))
         => UNCHANGED <<rate_limits, search_history, admin_users, max_points,
                        cooldown_seconds, task>>]_vars

\* C22, amended: a handle_search that ends exhausted sets the caller's
\* rate stamp to the current time, the rate check having let it through,
\* and changes nothing else: no balance (the caller has one, at or below
\* zero), no other stamp, no history, no file, no setting.
C22_ExhaustedOnlyStamps ==
    [][\A i \in Slots, uid \in UserIds, text \in Texts :
         (Begin(uid, text).outcome = "exhausted" /\ Receive(i, uid, text))
         => /\ rate_limits' = Put(rate_limits, str(uid), isoformat(now))
            /\ str(uid) \in DOMAIN user_points
            /\ UNCHANGED <<user_points, search_history, files, admin_users,
                           max_points, cooldown_seconds, task>>]_vars

\* an identity without points was turned away as exhausted after the
\* clock had moved, and carries the stamp of that attempt
C22_ExhaustedAndStamped ==
    \E k \in DOMAIN refused :
        /\ refused[k].kind = "exhausted"
        /\ refused[k].at = now /\ now > 0
        /\ k \in DOMAIN rate_limits /\ fromisoformat(rate_limits[k]) = now
        /\ k \in DOMAIN user_points /\ user_points[k] <= 0
        /\ AllIdle

\* the identity has no stamp, or the cooldown has passed since its stamp
CooledDown(k) ==
    \/ k \notin DOMAIN rate_limits
    \/ now - fromisoformat(rate_limits[k]) >= cooldown_seconds * TicksPerSec

\* C23: every attempt of a non-admin identity with a query that the rate
\* check lets through leaves the identity's stamp at the current time,
\* whether the attempt then ends exhausted or goes on to the match; what
\* the match returns (rows, none, or a failure of the store) and the
\* charge leave the stamps alone; a stamp is never removed, never moved
\* back, and never ahead of the clock.
C23_StampedOnEveryAllowedAttempt ==
    [][/\ \A k \in DOMAIN rate_limits :
            /\ k \in DOMAIN rate_limits'
            /\ fromisoformat(rate_limits[k]) <= fromisoformat(rate_limits'[k])
            /\ fromisoformat(rate_limits'[k]) <= now'
       /\ \A i \in Slots, uid \in UserIds, text \in Texts :
            (/\ strip(text) # <<>>
             /\ ~Admin(str(uid))
             /\ CooledDown(str(uid))
             /\ Receive(i, uid, text))
            => /\ str(uid) \in DOMAIN rate_limits'
               /\ rate_limits'[str(uid)] = isoformat(now)
       /\ \A i \in Slots :
            ((\E db_ok \in BOOLEAN : Match(i, db_ok)) \/ Charge(i))
            => UNCHANGED rate_limits]_vars

\* an identity searched and found nothing, and at a later time was let
\* through again and turned away as exhausted: its stamp is that of the
\* later attempt
C23_StampMovedByFruitlessAttempts ==
    \E k \in DOMAIN rate_limits :
        /\ k \in DOMAIN search_history
        /\ \E e \in 1..Len(search_history[k]) :
             /\ search_history[k][e].results = 0
             /\ fromisoformat(search_history[k][e].timestamp) < now
        /\ k \in DOMAIN refused
        /\ refused[k] = [kind |-> "exhausted", at |-> now]
        /\ rate_limits[k] = isoformat(now)

\* C24: between any two steps of the program, and so whenever an
\* operation has told its caller the outcome, the three files hold
\* exactly the balances, the admin list and the histories that are in
\* memory: no write is deferred, a balance on file is never the one from
\* before a debit.
C24_FilesEqualMemory ==
    files = [points |-> user_points, admins |-> admin_users, history |-> search_history]

\* a caller was debited and shown its results, an admin was added, a
\* search was logged, and the files show all of it
C24_DebitOnFile ==
    /\ AllIdle
    /\ \E k \in DOMAIN fresh :
         /\ fresh[k].n > 0
         /\ k \in DOMAIN files.points /\ files.points[k] = fresh[k].d - fresh[k].n
         /\ k \in DOMAIN files.history
    /\ Len(files.admins) = 2

\* C25: the rate stamps outlive a restart: the stamps in memory after
\* the process was started again are those from before it was stopped,
\* and an identity that the rate check turns away before the restart is
\* turned away after it.
C25_StampsSurviveRestart ==
    [][restart =>
         /\ rate_limits' = rate_limits
         /\ \A uid \in UserIds :
              check_rate_limit(rate_limits', admin_users', cooldown_seconds', uid, now').limited
                = RateCheck(uid).limited]_vars

\* C26: while the disk refuses a file, get_points, use_point,
\* log_search, add_admin and add_points leave in memory what they leave
\* when the write succeeds, and their callers send the same messages:
\* the first block of a search creates the balance and stamps, the match
\* block appends the history entry and goes on, the charge takes the
\* point and reports the balance, /addadmin appends the admin,
\* /addpoints adds the amount; each works on what the earlier ones left
\* in memory.
C26_FailedWriteSameOutcome ==
    [][(disk # "ok" /\ disk' = disk) =>
       /\ \A i \in Slots, uid \in Searchers, text \in Texts :
            Receive(i, uid, text) =>
              /\ user_points' =
                   IF strip(text) # <<>> /\ ~Admin(str(uid)) /\ CooledDown(str(uid))
                      /\ str(uid) \notin DOMAIN user_points
                   THEN Put(user_points, str(uid), max_points) ELSE user_points
              /\ reply'.kind = Begin(uid, text).outcome
       /\ \A i \in Slots, db_ok \in BOOLEAN :
            Match(i, db_ok) =>
              LET k == str(task[i].user)
                  r == search_db(Rows, task[i].query, db_ok)
              IN  /\ search_history' =
                       Put(search_history, k,
                           Append(Get(search_history, k, <<>>),
                                  [query |-> task[i].query, results |-> Len(r),
                                   timestamp |-> isoformat(now)]))
                  /\ reply' = Msg(task[i].user,
                                  IF r = <<>> THEN "no_match" ELSE "found", Len(r))
                  /\ task'[i].pc = IF r = <<>> THEN "idle" ELSE "found"
       /\ \A i \in Slots :
            (Charge(i) /\ ~task[i].is_admin /\ ~Admin(str(task[i].user))) =>
              LET k == str(task[i].user)
                  b == BalanceAtEntry(task[i].user)
                  left == IF b > 0 THEN b - 1 ELSE b
              IN  /\ user_points' = Put(user_points, k, left)
                  /\ reply' = Msg(task[i].user, "charged", left)
       /\ \A uid \in Commanders, arg \in AdminTargets :
            (add_admin(uid, arg) /\ MayGrant(uid) /\ ~Admin(arg)) =>
              /\ admin_users' = Append(admin_users, arg)
              /\ reply' = Msg(uid, "admin_added", 0)
       /\ \A uid \in Commanders, target \in CreditTargets, n \in Amounts :
            (add_points(uid, target, IntArg(n)) /\ is_admin(admin_users, uid)) =>
              /\ user_points' = Put(user_points, target, Get(user_points, target, 0) + n)
              /\ reply' = Msg(uid, "points_added", Get(user_points, target, 0) + n)]_vars

\* the points file cannot be written: a caller was charged and told its
\* new balance, memory holds it, the file does not, and the logged
\* search is in memory only
C26_ChargedWhileDiskRefuses ==
    /\ disk = "points"
    /\ reply.kind = "charged"
    /\ str(reply.to) \in DOMAIN user_points
    /\ user_points[str(reply.to)] = reply.n
    /\ files.points # user_points
    /\ files.history # search_history

\* C27: no identity is at once in the admin list and a key of the
\* balance map.
C27_NoAdminHasQuotaRecord ==
    \A k \in DOMAIN user_points : ~Admin(k)

\* the stages a coroutine may move between
StageMoves ==
    { <<"idle", "searching">>, <<"searching", "found">>,
      <<"searching", "idle">>, <<"found", "idle">> }

\* C28: a handle_search goes from received to matched to charged or
\* uncharged and ends, never another way round: it stops in its first
\* block only with the invalid-input, rate-limited or exhausted message,
\* the blank test coming before the rate check and the rate check before
\* the quota test; it ends after the match with the no-match message and
\* after the charge with the results; and, with other identities'
\* searches in flight, every search that was started ends.
C28_StagesInOrderAndCompletes ==
    /\ [][/\ \A i \in Slots :
               task'[i].pc # task[i].pc => <<task[i].pc, task'[i].pc>> \in StageMoves
          /\ \A i \in Slots, uid \in UserIds, text \in Texts :
               Receive(i, uid, text) =>
                 /\ task'[i].pc = "idle"
                      <=> reply'.kind \in {"invalid", "rate_limited", "exhausted"}
                 /\ task'[i].pc = "searching" <=> reply'.kind = "searching"
                 /\ reply'.kind = "invalid" <=> strip(text) = <<>>
                 /\ reply'.kind = "rate_limited"
                      <=> strip(text) # <<>> /\ ~Admin(str(uid)) /\ ~CooledDown(str(uid))
                 /\ UNCHANGED search_history
          /\ \A i \in Slots :
               /\ (task[i].pc = "searching" /\ task'[i].pc = "idle")
                    => reply' = Msg(task[i].user, "no_match", 0)
               /\ (task[i].pc = "searching" /\ task'[i].pc = "found")
                    => reply'.kind = "found" /\ UNCHANGED user_points
               /\ (task[i].pc = "found" /\ task'[i].pc = "idle")
                    => reply'.to = task[i].user /\ reply'.kind \in {"results", "charged"}]_vars
    /\ \A i \in Slots : (task[i].pc # "idle") ~> (task[i].pc = "idle")

\* one identity's search has ended with its results while another
\* identity's search, started before, is still waiting for its match
C28_OneEndedOtherInFlight ==
    /\ reply.kind \in {"results", "charged"}
    /\ task[1].pc = "searching" /\ task[1].user # reply.to
    /\ task[2].pc = "idle"
    /\ str(reply.to) \in DOMAIN search_history

\* the step from dict a to dict b set the entry of key k to v
Wrote(a, b, k, v) == k \in DOMAIN b /\ b[k] = v /\ (k \notin DOMAIN a \/ a[k] # v)
\* the key is in the list
InList(list, k) == \E j \in 1..Len(list) : list[j] = k

\* C29: with main.py and bot.py running side by side on the same files, no
\* step loses what is on file: a balance on file stays on file, and it
\* changes only in a step where one of the two caches sets that balance,
\* and to the value set; an admin on file stays on file.
C29_NothingOnFileIsLost ==
    [][/\ \A k \in DOMAIN files.points :
            /\ k \in DOMAIN files'.points
            /\ files'.points[k] # files.points[k]
                 => \/ Wrote(user_points, user_points', k, files'.points[k])
                    \/ Wrote(peer.user_points, peer'.user_points, k, files'.points[k])
       /\ \A j \in 1..Len(files.admins) : InList(files'.admins, files.admins[j])]_vars

====
